---- MODULE Spec2Model ----
(***************************************************************************)
(* Model of src/main.py: the Flask request handlers of the flow service    *)
(* and the FlowDataManager data access layer over one Firestore            *)
(* collection ('reactflow_data').                                          *)
(*                                                                         *)
(* Handlers run concurrently (one thread per request) and interact only    *)
(* through the store, so a handler is one step per store call it makes:    *)
(* every handler is a single step except delete_node, whose remove_node    *)
(* reads the document (get) and later writes it back (update).             *)
(* The store is a reachable Firestore: a call raises only what Firestore   *)
(* raises by itself for that call (update of a missing document, an        *)
(* invalid document id); set, update and delete of one document are atomic.*)
(***************************************************************************)
EXTENDS Integers, Sequences, FiniteSets, TLC

VARIABLES
    db,        \* module global db: the Firestore client, or None when initialization failed
    store,     \* collection 'reactflow_data': document id -> document (DOMAIN = existing documents)
    clock,     \* the store's server time: the last SERVER_TIMESTAMP handed out
    inflight,  \* per worker thread: a delete_node request between remove_node's get and its update
    last,      \* the request completed last: what it asked, what it found, what was answered
    saved,     \* history: ids saved successfully since their last delete
    lastSaved  \* history: per id, <<payload>> of the save that was the last write to it, else <<>>

vars == <<db, store, clock, inflight, last, saved, lastSaved>>

----------------------------------------------------------------------------
\* Bounds of the model.

\* Number of timestamped writes (set / update) in a run.
MaxClock == 3

\* Worker threads that can hold a delete_node request in flight.
Workers == {"w1"}
\* Node ids clients use.
NodeIds == {"n1", "n2", "n3"}
\* Values datetime.now().isoformat() can take.
Times == {"t1"}
\* Ids Firestore generates for document(None).
AutoIds == {"auto1"}

----------------------------------------------------------------------------
\* JSON values.

\* A key that the JSON body does not have.
Absent == "<absent>"
\* JSON null (Python None).
Null == "<null>"
\* Python None as the value of db / flow_manager.
NoneVal == "None"
\* A node that carries no data.created_at.
NoStamp == "<none>"

Node(i, t) == [id |-> i, data |-> [created_at |-> t]]
Edge(s, t) == [source |-> s, target |-> t]

\* Nodes as clients send them.
RequestNodes == {Node(i, NoStamp) : i \in NodeIds}

\* The nodes and edges lists of save requests.
NodeLists ==
    { <<Node("n1", NoStamp), Node("n2", NoStamp)>>,
      <<Node("n2", NoStamp), Node("n3", NoStamp), Node("n1", NoStamp)>> }
EdgeLists ==
    { <<Edge("n1", "n2"), Edge("n2", "n3"), Edge("n3", "n2")>> }

\* A JSON field of a body: absent, a list, or a single object.
JsonAbsent == [kind |-> "absent", items |-> <<>>]
JsonObject == [kind |-> "object", items |-> <<>>]
JsonList(items) == [kind |-> "list", items |-> items]

NodesFields == {JsonAbsent, JsonObject} \cup {JsonList(s) : s \in NodeLists}
EdgesFields == {JsonAbsent, JsonObject} \cup {JsonList(s) : s \in EdgeLists}

\* The theme field of save bodies.
BodyThemes == {"dark", Absent}

\* user_id values of request bodies and of request paths.
BodyUserIds == {"u1", Absent, "", Null}
PathUserIds == {"u1", "default_user"} \cup AutoIds

----------------------------------------------------------------------------
\* The store (google-cloud-firestore calls made by FlowDataManager).

EmptyStore == [k \in {} |-> k]

\* collection.document(user_id): the ids the reference can get. document(None)
\* takes a new random id, one that no document has.
document(st, user_id) ==
    IF user_id = Null THEN AutoIds \ DOMAIN st ELSE {user_id}

\* Firestore rejects a write or read of a document whose id is empty.
ValidId(ref) == ref # ""

\* Mutant of DocSet: a set that leaves the theme of an existing document.
DocSetKeepTheme(st, ref, data) ==
    [k \in DOMAIN st \cup {ref} |->
        IF k # ref THEN st[k]
        ELSE IF ref \in DOMAIN st THEN [data EXCEPT !.theme = st[ref].theme]
        ELSE data]

\* doc_ref.set(data): create or replace the whole document.
DocSet(st, ref, data) ==
    [k \in DOMAIN st \cup {ref} |-> IF k = ref THEN data ELSE st[k]]

\* doc_ref.update(...) raises NotFound when the document does not exist.
UpdateRaises(st, ref) == ~ValidId(ref) \/ ref \notin DOMAIN st

\* doc_ref.delete(): no error when the document does not exist.
DocDelete(st, ref) == [k \in DOMAIN st \ {ref} |-> st[k]]

\* firestore.ArrayUnion([elem]): append elem unless an equal element is there.
ArrayUnion(arr, elem) ==
    IF \E i \in 1..Len(arr) : arr[i] = elem THEN arr ELSE Append(arr, elem)

----------------------------------------------------------------------------
\* FlowDataManager. Each method gives [ok, store, clock]: its return value and
\* the store and server time it leaves.

Result(ok, st, clk) == [ok |-> ok, store |-> st, clock |-> clk]

\* Mutant of SaveData: the two counts taken from the wrong lists.
SaveDataCountsSwapped(nodes, edges, theme, ts) ==
    [nodes |-> nodes, edges |-> edges, theme |-> theme, updated_at |-> ts,
     node_count |-> Len(edges), edge_count |-> Len(nodes)]

\* The dict save_flow_data writes; ts is the SERVER_TIMESTAMP.
SaveData(nodes, edges, theme, ts) ==
    [nodes |-> nodes, edges |-> edges, theme |-> theme, updated_at |-> ts,
     node_count |-> Len(nodes), edge_count |-> Len(edges)]

save_flow_data(st, clk, ref, nodes, edges, theme) ==
    IF ~ValidId(ref)
      THEN Result(FALSE, st, clk)
      ELSE Result(TRUE, DocSet(st, ref, SaveData(nodes, edges, theme, clk + 1)), clk + 1)

\* Optional[Dict]: <<doc>> when the document exists, <<>> for None.
get_flow_data(st, ref) ==
    IF ValidId(ref) /\ ref \in DOMAIN st THEN <<st[ref]>> ELSE <<>>

delete_flow_data(st, clk, ref) ==
    IF ~ValidId(ref)
      THEN Result(FALSE, st, clk)
      ELSE Result(TRUE, DocDelete(st, ref), clk)

\* node['data']['created_at'] = datetime.now().isoformat()
Stamped(node, now) == [node EXCEPT !.data.created_at = now]

\* Mutant of AddNodeUpdate: an update that also recomputes node_count.
AddNodeUpdateCounted(doc, node, ts) ==
    [doc EXCEPT !.nodes = ArrayUnion(@, node), !.updated_at = ts,
                !.node_count = Len(ArrayUnion(doc.nodes, node))]

\* The document after update({'nodes': ArrayUnion([node]), 'updated_at': ts}).
AddNodeUpdate(doc, node, ts) ==
    [doc EXCEPT !.nodes = ArrayUnion(@, node), !.updated_at = ts]

\* Mutant of add_node: a write that creates the document when it is missing.
add_node_upsert(st, clk, ref, node, now) ==
    IF ~ValidId(ref)
      THEN Result(FALSE, st, clk)
      ELSE Result(TRUE,
                  DocSet(st, ref,
                         IF ref \in DOMAIN st
                           THEN AddNodeUpdate(st[ref], Stamped(node, now), clk + 1)
                           ELSE SaveData(<<Stamped(node, now)>>, <<>>, "light", clk + 1)),
                  clk + 1)

add_node(st, clk, ref, node, now) ==
    IF UpdateRaises(st, ref)
      THEN Result(FALSE, st, clk)
      ELSE Result(TRUE,
                  [st EXCEPT ![ref] = AddNodeUpdate(@, Stamped(node, now), clk + 1)],
                  clk + 1)

\* remove_node's two list comprehensions.
updated_nodes(flow_data, node_id) ==
    SelectSeq(flow_data.nodes, LAMBDA n : n.id # node_id)

\* Mutant of updated_edges: only the source of an edge is compared.
updated_edges_source_only(flow_data, node_id) ==
    SelectSeq(flow_data.edges, LAMBDA e : e.source # node_id)

updated_edges(flow_data, node_id) ==
    SelectSeq(flow_data.edges, LAMBDA e : e.source # node_id /\ e.target # node_id)

\* Mutant of RemoveNodeUpdate: the lists are filtered from the document as it
\* is at the update, not from what was read.
RemoveNodeUpdateCurrent(doc, flow_data, node_id, ts) ==
    [doc EXCEPT !.nodes = updated_nodes(doc, node_id),
                !.edges = updated_edges(doc, node_id),
                !.updated_at = ts]

\* The document after update({'nodes': .., 'edges': .., 'updated_at': ts}).
RemoveNodeUpdate(doc, flow_data, node_id, ts) ==
    [doc EXCEPT !.nodes = updated_nodes(flow_data, node_id),
                !.edges = updated_edges(flow_data, node_id),
                !.updated_at = ts]

\* remove_node from its update on: flow_data is what its get_flow_data returned.
remove_node_write(st, clk, ref, flow_data, node_id) ==
    IF UpdateRaises(st, ref)
      THEN Result(FALSE, st, clk)
      ELSE Result(TRUE,
                  [st EXCEPT ![ref] = RemoveNodeUpdate(@, flow_data, node_id, clk + 1)],
                  clk + 1)

\* Mutant of flow_manager: the manager is built whatever db is.
flow_manager_unchecked == "FlowDataManager"

\* flow_manager: a FlowDataManager when db is set, else None.
flow_manager == IF db # NoneVal THEN "FlowDataManager" ELSE NoneVal

----------------------------------------------------------------------------
\* Requests and responses.

NoRequest == [route |-> "none", req |-> <<>>, status |-> 0, body |-> <<>>,
              wrote |-> {}, calls |-> 0]

\* The record of a completed request: its route, the request with what the
\* handler found in the store, the HTTP status and JSON body answered, the ids
\* of the documents it wrote or deleted and the number of store calls it made.
Completed(route, req, status, body, wrote, calls) ==
    [route |-> route, req |-> req, status |-> status,
     body |-> body, wrote |-> wrote, calls |-> calls]

ErrorBody(msg) == [error |-> msg]
MessageBody(msg) == [message |-> msg]

\* The first lines of every data route.
NotInitialized(route, req) ==
    /\ last' = Completed(route, req, 500, ErrorBody("Firebase not initialized"), {}, 0)
    /\ UNCHANGED <<db, store, clock, inflight, saved, lastSaved>>

Idle == [stage |-> "idle"]

\* data.get(key, default) on a body field that holds a string.
Get(value, default) == IF value = Absent THEN default ELSE value

\* isinstance(field, list) after data.get(key, []).
IsList(field) == field.kind \in {"absent", "list"}

\* The list data.get(key, []) gives for a field that passed IsList.
ListOf(field) == field.items

\* Mutant of InvalidFormat: 'and' in place of 'or'.
InvalidFormatBoth(nodes, edges) == ~IsList(nodes) /\ ~IsList(edges)

\* save_flow's shape check: the condition under which it answers 400.
InvalidFormat(nodes, edges) == ~IsList(nodes) \/ ~IsList(edges)

\* Mutant of LoadResponse: a missing document answered as an error.
LoadResponseNotFound(flow_data) ==
    IF flow_data # <<>>
      THEN [status |-> 200,
            body |-> [nodes |-> flow_data[1].nodes, edges |-> flow_data[1].edges,
                      theme |-> flow_data[1].theme,
                      updated_at |-> flow_data[1].updated_at,
                      node_count |-> flow_data[1].node_count,
                      edge_count |-> flow_data[1].edge_count]]
      ELSE [status |-> 404, body |-> [error |-> "No data found for user"]]

\* The status and body load_flow answers for what get_flow_data returned.
LoadResponse(flow_data) ==
    IF flow_data # <<>>
      THEN [status |-> 200,
            body |-> [nodes |-> flow_data[1].nodes, edges |-> flow_data[1].edges,
                      theme |-> flow_data[1].theme,
                      updated_at |-> flow_data[1].updated_at,
                      node_count |-> flow_data[1].node_count,
                      edge_count |-> flow_data[1].edge_count]]
      ELSE [status |-> 200,
            body |-> [nodes |-> <<>>, edges |-> <<>>, theme |-> "light",
                      message |-> "No data found for user"]]

\* The status and body delete_flow answers for what delete_flow_data returned.
DeleteFlowResponse(ok) ==
    IF ok THEN [status |-> 200, body |-> MessageBody("Flow data deleted successfully")]
          ELSE [status |-> 500, body |-> ErrorBody("Failed to delete flow data")]

\* History: the ids whose last write is no longer a save.
Edited(ids) == [k \in DOMAIN lastSaved |-> IF k \in ids THEN <<>> ELSE lastSaved[k]]

----------------------------------------------------------------------------
\* Handlers.

\* GET /health
health_check ==
    /\ last' = Completed("health", <<>>, 200,
                         [status |-> "healthy", firebase_connected |-> (db # NoneVal)], {}, 0)
    /\ UNCHANGED <<db, store, clock, inflight, saved, lastSaved>>

\* POST /api/flow/save with body {user_id, nodes, edges, theme}.
\* req.replaced (history): the payload of the save this one overwrites, if the
\* last write to the document was a save.
save_flow(b_user_id, b_nodes, b_edges, b_theme) ==
    LET req == [user_id |-> b_user_id, nodes_kind |-> b_nodes.kind,
                edges_kind |-> b_edges.kind]
        user_id == Get(b_user_id, "default_user")
        theme == Get(b_theme, "light")
        payload == [nodes |-> ListOf(b_nodes), edges |-> ListOf(b_edges), theme |-> theme]
    IN  IF flow_manager = NoneVal THEN NotInitialized("save", req)
        ELSE IF InvalidFormat(b_nodes, b_edges)
          THEN /\ last' = Completed("save", req, 400, ErrorBody("Invalid data format"), {}, 0)
               /\ UNCHANGED <<db, store, clock, inflight, saved, lastSaved>>
          ELSE \E ref \in document(store, user_id) :
                 LET r == save_flow_data(store, clock, ref, payload.nodes, payload.edges, theme)
                 IN  /\ r.ok => clock < MaxClock
                     /\ store' = r.store
                     /\ clock' = r.clock
                     /\ saved' = IF r.ok THEN saved \cup {ref} ELSE saved
                     /\ lastSaved' = IF r.ok THEN [lastSaved EXCEPT ![ref] = <<payload>>]
                                             ELSE lastSaved
                     /\ last' = IF r.ok
                                  THEN Completed("save",
                                         req @@ [payload |-> payload, ref |-> ref,
                                                 replaced |-> lastSaved[ref]],
                                         200,
                                         [message |-> "Flow data saved successfully",
                                          node_count |-> Len(payload.nodes),
                                          edge_count |-> Len(payload.edges)],
                                         {ref}, 1)
                                  ELSE Completed("save", req, 500,
                                         ErrorBody("Failed to save flow data"), {}, 1)
                     /\ UNCHANGED <<db, inflight>>

\* GET /api/flow/load/<user_id>
load_flow(user_id) ==
    LET flow_data == get_flow_data(store, user_id)
        req == [user_id |-> user_id, found |-> (flow_data # <<>>)]
        resp == LoadResponse(flow_data)
    IN  IF flow_manager = NoneVal THEN NotInitialized("load", req)
        ELSE /\ last' = Completed("load", req, resp.status, resp.body, {}, 1)
             /\ UNCHANGED <<db, store, clock, inflight, saved, lastSaved>>

\* POST /api/flow/node with body {user_id, node}; b_node is <<>> when the body
\* has no node, else <<node>>. now is datetime.now().
\* req.before (history): <<the document before the update>>, <<>> if it was
\* missing; req.after_save (history): the last write to the document was a save.
add_node_route(b_user_id, b_node, now) ==
    LET req == [user_id |-> b_user_id, node |-> b_node, now |-> now]
        user_id == Get(b_user_id, "default_user")
    IN  IF flow_manager = NoneVal THEN NotInitialized("add_node", req)
        ELSE IF b_node = <<>>
          THEN /\ last' = Completed("add_node", req, 400, ErrorBody("Node data required"), {}, 0)
               /\ UNCHANGED <<db, store, clock, inflight, saved, lastSaved>>
          ELSE \E ref \in document(store, user_id) :
                 LET r == add_node(store, clock, ref, b_node[1], now)
                     found == req @@ [ref |-> ref, before |-> get_flow_data(store, ref),
                                      after_save |-> (ref \in DOMAIN lastSaved /\ lastSaved[ref] # <<>>)]
                 IN  /\ r.ok => clock < MaxClock
                     /\ store' = r.store
                     /\ clock' = r.clock
                     /\ lastSaved' = IF r.ok THEN Edited({ref}) ELSE lastSaved
                     /\ last' = IF r.ok
                                  THEN Completed("add_node", found, 200,
                                         MessageBody("Node added successfully"), {ref}, 1)
                                  ELSE Completed("add_node", found, 500,
                                         ErrorBody("Failed to add node"), {}, 1)
                     /\ UNCHANGED <<db, inflight, saved>>

\* The fields of the document remove_node uses after its get_flow_data.
ReadFields(doc) == [nodes |-> doc.nodes, edges |-> doc.edges]

\* DELETE /api/flow/node/<user_id>/<node_id>, up to remove_node's get_flow_data:
\* with no document remove_node returns False and the handler answers 500.
delete_node_read(w, user_id, node_id) ==
    LET req == [user_id |-> user_id, node_id |-> node_id, flow_data |-> <<>>,
                before |-> <<>>]
        flow_data == get_flow_data(store, user_id)
    IN  /\ inflight[w] = Idle
        /\ IF flow_manager = NoneVal THEN NotInitialized("delete_node", req)
           ELSE IF flow_data = <<>>
             THEN /\ last' = Completed("delete_node", req, 500,
                                       ErrorBody("Failed to delete node"), {}, 1)
                  /\ UNCHANGED <<db, store, clock, inflight, saved, lastSaved>>
             ELSE /\ inflight' = [inflight EXCEPT ![w] =
                                    [stage |-> "read", user_id |-> user_id,
                                     node_id |-> node_id,
                                     flow_data |-> ReadFields(flow_data[1])]]
                  /\ UNCHANGED <<db, store, clock, last, saved, lastSaved>>

\* The rest of the same request: remove_node filters what it read and updates
\* the document, and the handler answers.
\* req.flow_data: <<what remove_node read>>; req.before (history): <<the
\* document just before the update>>, <<>> if it was missing by then.
delete_node_write(w) ==
    /\ inflight[w] # Idle
    /\ LET p == inflight[w]
           req == [user_id |-> p.user_id, node_id |-> p.node_id,
                   flow_data |-> <<p.flow_data>>,
                   before |-> get_flow_data(store, p.user_id)]
           r == remove_node_write(store, clock, p.user_id, p.flow_data, p.node_id)
       IN  /\ r.ok => clock < MaxClock
           /\ store' = r.store
           /\ clock' = r.clock
           /\ lastSaved' = IF r.ok THEN Edited({p.user_id}) ELSE lastSaved
           /\ last' = IF r.ok
                        THEN Completed("delete_node", req, 200,
                               MessageBody("Node deleted successfully"), {p.user_id}, 2)
                        ELSE Completed("delete_node", req, 500,
                               ErrorBody("Failed to delete node"), {}, 2)
    /\ inflight' = [inflight EXCEPT ![w] = Idle]
    /\ UNCHANGED <<db, saved>>

\* DELETE /api/flow/<user_id>
delete_flow(user_id) ==
    LET req == [user_id |-> user_id, existed |-> (user_id \in DOMAIN store)]
        r == delete_flow_data(store, clock, user_id)
        resp == DeleteFlowResponse(r.ok)
    IN  IF flow_manager = NoneVal THEN NotInitialized("delete_flow", req)
        ELSE /\ store' = r.store
             /\ saved' = IF r.ok THEN saved \ {user_id} ELSE saved
             /\ lastSaved' = IF r.ok THEN Edited({user_id}) ELSE lastSaved
             /\ last' = Completed("delete_flow", req, resp.status, resp.body,
                                  IF r.ok THEN {user_id} ELSE {}, 1)
             /\ UNCHANGED <<db, clock, inflight>>

\* GET /api/users
list_users ==
    IF db = NoneVal THEN NotInitialized("list_users", <<>>)
    ELSE /\ last' = Completed("list_users", <<>>, 200,
                      [users |-> {[user_id |-> k, node_count |-> store[k].node_count,
                                   edge_count |-> store[k].edge_count,
                                   theme |-> store[k].theme,
                                   updated_at |-> store[k].updated_at] : k \in DOMAIN store}],
                      {}, 1)
         /\ UNCHANGED <<db, store, clock, inflight, saved, lastSaved>>

----------------------------------------------------------------------------
\* The process: db is set once, by the module-level initialize_firebase().

Init ==
    /\ db \in {"client", NoneVal}
    /\ store = EmptyStore
    /\ clock = 0
    /\ inflight = [w \in Workers |-> Idle]
    /\ last = NoRequest
    /\ saved = {}
    /\ lastSaved = [k \in PathUserIds |-> <<>>]

\* The requests clients can send, with body user ids B, path user ids P and
\* save bodies whose nodes, edges and theme fields are drawn from NF, EF and T.
Requests(B, P, NF, EF, T) ==
    \/ health_check
    \/ \E u \in B, n \in NF, e \in EF, t \in T : save_flow(u, n, e, t)
    \/ \E u \in P : load_flow(u)
    \/ \E u \in B, n \in {<<>>} \cup {<<x>> : x \in RequestNodes}, t \in Times :
         add_node_route(u, n, t)
    \/ \E w \in Workers, u \in P, i \in NodeIds : delete_node_read(w, u, i)
    \/ \E w \in Workers : delete_node_write(w)
    \/ \E u \in P : delete_flow(u)
    \/ list_users

\* One user's document under every request and interleaving.
Next == Requests({"u1"}, {"u1"}, NodesFields, EdgesFields, BodyThemes)

Spec == Init /\ [][Next]_vars

\* Every form of user_id a body can carry, on small save bodies.
NextUserIds ==
    Requests(BodyUserIds, PathUserIds,
             {JsonAbsent, JsonList(<<Node("n1", NoStamp)>>)}, {JsonAbsent}, {Absent})

SpecUserIds == Init /\ [][NextUserIds]_vars

----------------------------------------------------------------------------
\* Properties.

Range(s) == {s[i] : i \in 1..Len(s)}

\* The nodes of s whose id is not id, in the order of s.
RECURSIVE NodesExcept(_, _)
NodesExcept(s, id) ==
    IF s = <<>> THEN <<>>
    ELSE IF Head(s).id = id THEN NodesExcept(Tail(s), id)
    ELSE <<Head(s)>> \o NodesExcept(Tail(s), id)

\* The edges of s that neither start nor end at id, in the order of s.
RECURSIVE EdgesExcept(_, _)
EdgesExcept(s, id) ==
    IF s = <<>> THEN <<>>
    ELSE IF Head(s).source = id \/ Head(s).target = id THEN EdgesExcept(Tail(s), id)
    ELSE <<Head(s)>> \o EdgesExcept(Tail(s), id)

\* doc holds payload p whole: all of nodes, edges, theme and both counts.
Holds(doc, p) ==
    /\ doc.nodes = p.nodes
    /\ doc.edges = p.edges
    /\ doc.theme = p.theme
    /\ doc.node_count = Len(p.nodes)
    /\ doc.edge_count = Len(p.edges)

Initialized == db # NoneVal

\* C1: when the last write to a user_id's document was a successful save, a
\* load of that user_id answers 200 with the saved nodes, edges and theme,
\* node_count = the number of saved nodes and edge_count = the number of saved
\* edges, whatever the document held before; a load just answered is that answer.
C1_SaveThenLoad ==
    \A k \in DOMAIN lastSaved :
        lastSaved[k] # <<>> =>
            LET p == lastSaved[k][1]
                resp == LoadResponse(get_flow_data(store, k))
            IN  /\ resp.status = 200
                /\ Holds(resp.body, p)
                /\ (last.route = "load" /\ last.req.user_id = k) =>
                      (last.status = 200 /\ Holds(last.body, p))

\* A load answered after a save that replaced an earlier document.
C1_Witness ==
    /\ last.route = "load"
    /\ last.status = 200
    /\ lastSaved[last.req.user_id] # <<>>
    /\ Len(last.body.nodes) > 0
    /\ Len(last.body.edges) > 0
    /\ clock >= 2

\* C2: after a delete_node request that succeeded, the stored nodes are the
\* nodes remove_node read whose id differs from node_id, in their order, and the
\* stored edges are the edges it read whose source and target both differ from
\* node_id, in their order: the previous nodes and edges whenever no other write
\* came between its read and its update. One update stores both, so the stored
\* document has no node with that id and no edge that references it.
C2_RemoveNode ==
    (last.route = "delete_node" /\ last.status = 200) =>
        LET k == last.req.user_id
            id == last.req.node_id
            read == last.req.flow_data[1]
        IN  /\ k \in DOMAIN store
            /\ last.req.before # <<>>
            /\ store[k].nodes = NodesExcept(read.nodes, id)
            /\ store[k].edges = EdgesExcept(read.edges, id)
            /\ ReadFields(last.req.before[1]) = read =>
                  /\ store[k].nodes = NodesExcept(last.req.before[1].nodes, id)
                  /\ store[k].edges = EdgesExcept(last.req.before[1].edges, id)
            /\ \A n \in Range(store[k].nodes) : n.id # id
            /\ \A e \in Range(store[k].edges) : e.source # id /\ e.target # id

\* A removal with no write in between that dropped a node, an edge starting at
\* it and an edge ending at it, and kept two nodes.
C2_Witness ==
    /\ last.route = "delete_node"
    /\ last.status = 200
    /\ ReadFields(last.req.before[1]) = last.req.flow_data[1]
    /\ \E n \in Range(last.req.before[1].nodes) : n.id = last.req.node_id
    /\ \E e \in Range(last.req.before[1].edges) : e.source = last.req.node_id
    /\ \E e \in Range(last.req.before[1].edges) : e.target = last.req.node_id
    /\ Len(store[last.req.user_id].nodes) >= 2
    /\ Len(store[last.req.user_id].edges) < Len(last.req.before[1].edges)

\* C3: with the store client initialized, a load of a user_id that has no
\* stored document, never saved or deleted after earlier saves and node
\* operations, answers 200 with nodes = [], edges = [], theme = 'light'; and a
\* delete of a user_id that has no document answers 200.
C3_AbsentDocument ==
    Initialized =>
        /\ \A k \in PathUserIds \ DOMAIN store :
              LET resp == LoadResponse(get_flow_data(store, k))
              IN  /\ resp.status = 200
                  /\ resp.body.nodes = <<>>
                  /\ resp.body.edges = <<>>
                  /\ resp.body.theme = "light"
        /\ (last.route = "load" /\ last.req.user_id \notin DOMAIN store) =>
              /\ last.status = 200
              /\ last.body.nodes = <<>>
              /\ last.body.edges = <<>>
              /\ last.body.theme = "light"
        /\ (last.route = "delete_flow" /\ ~last.req.existed) => last.status = 200

\* A load of a user_id whose document was saved and then deleted.
C3_Witness ==
    /\ last.route = "load"
    /\ last.status = 200
    /\ last.req.user_id \notin DOMAIN store
    /\ last.req.user_id \notin saved
    /\ clock >= 2

\* C4: a save whose nodes or edges value is a single object answers 400 and
\* leaves the store as it was: no document is created and none is changed.
C4_InvalidShape ==
    [][(/\ Initialized
        /\ last'.route = "save"
        /\ (last'.req.nodes_kind = "object" \/ last'.req.edges_kind = "object"))
         => (last'.status = 400 /\ store' = store)]_vars

\* A rejected save while a document exists for the user_id.
C4_Witness ==
    /\ last.route = "save"
    /\ last.status = 400
    /\ last.req.nodes_kind = "object"
    /\ last.req.edges_kind = "list"
    /\ last.req.user_id \in DOMAIN store

\* C5: when a successful save B completes on a document whose last write was
\* a successful save A (the two orders a concurrent pair can take), the stored
\* document holds A whole or B whole in nodes, edges, theme, node_count and
\* edge_count, never fields of both.
C5_TwoSaves ==
    (last.route = "save" /\ last.status = 200 /\ last.req.replaced # <<>>) =>
        /\ last.req.ref \in DOMAIN store
        /\ \/ Holds(store[last.req.ref], last.req.replaced[1])
           \/ Holds(store[last.req.ref], last.req.payload)

\* Two saves in a row that differ in nodes, edges and theme.
C5_Witness ==
    /\ last.route = "save"
    /\ last.status = 200
    /\ last.req.replaced # <<>>
    /\ last.req.replaced[1].nodes # last.req.payload.nodes
    /\ last.req.replaced[1].edges # last.req.payload.edges
    /\ last.req.replaced[1].theme # last.req.payload.theme

\* C6: a save or add-node request of well-formed body whose user_id is absent,
\* the empty string or null is applied to document 'default_user' and to no
\* other document.
C6_DefaultUser ==
    (/\ Initialized
     /\ last.route \in {"save", "add_node"}
     /\ last.req.user_id \in {Absent, "", Null}
     /\ last.status # 400) =>
        IF last.route = "save"
          THEN /\ last.status = 200
               /\ last.wrote = {"default_user"}
               /\ "default_user" \in DOMAIN store
               /\ Holds(store["default_user"], last.req.payload)
          ELSE /\ last.wrote \subseteq {"default_user"}
               /\ "default_user" \in DOMAIN store => last.wrote = {"default_user"}

DataRoutes == {"save", "load", "add_node", "delete_node", "delete_flow", "list_users"}

\* C7: when the store client failed to initialize, every data route answers
\* 500 with the error 'Firebase not initialized' without a store call, the
\* store is never touched, GET /health answers 200 with firebase_connected =
\* false, and the client stays uninitialized for the rest of the process.
C7_NotInitialized ==
    /\ [](~Initialized =>
            /\ last.route \in DataRoutes =>
                  /\ last.status = 500
                  /\ last.body = ErrorBody("Firebase not initialized")
                  /\ last.calls = 0
                  /\ last.wrote = {}
            /\ last.route = "health" =>
                  (last.status = 200 /\ last.body.firebase_connected = FALSE)
            /\ store = EmptyStore
            /\ clock = 0
            /\ \A w \in Workers : inflight[w] = Idle)
    /\ [][~Initialized => ~Initialized']_vars

\* A data route answered without a store client.
C7_Witness ==
    /\ ~Initialized
    /\ last.route = "delete_node"
    /\ last.status = 500

\* C8: a document exists only for an id saved successfully since its last
\* delete; add_node and remove_node for a user_id that has no document answer
\* 500 and leave the store without a document for it.
C8_OnlySaveCreates ==
    /\ DOMAIN store \subseteq saved
    /\ (/\ Initialized
        /\ last.route = "add_node"
        /\ last.req.node # <<>>
        /\ last.req.before = <<>>) =>
          (last.status = 500 /\ last.req.ref \notin DOMAIN store)
    /\ (/\ Initialized
        /\ last.route = "delete_node"
        /\ last.req.before = <<>>) =>
          (last.status = 500 /\ last.req.user_id \notin DOMAIN store)

\* An add_node on a user_id whose document was deleted.
C8_Witness ==
    /\ Initialized
    /\ last.route = "add_node"
    /\ last.status = 500
    /\ last.req.node # <<>>
    /\ last.req.ref \notin DOMAIN store
    /\ clock >= 1

\* C9: remove_node writes back what it read: a node or edge that a successful
\* add_node or save stored between remove_node's read and its update, and that
\* the removal is not about, is missing from the document after the update.
C9_LostUpdate ==
    (last.route = "delete_node" /\ last.status = 200) =>
        LET id == last.req.node_id
            read == last.req.flow_data[1]
            before == last.req.before[1]
            doc == store[last.req.user_id]
        IN  /\ \A n \in Range(before.nodes) :
                  (n.id # id /\ n \notin Range(read.nodes)) => n \notin Range(doc.nodes)
            /\ \A e \in Range(before.edges) :
                  (e.source # id /\ e.target # id /\ e \notin Range(read.edges))
                      => e \notin Range(doc.edges)

\* A removal that lost a node add_node had stored after the removal's read.
C9_Witness ==
    /\ last.route = "delete_node"
    /\ last.status = 200
    /\ \E n \in Range(last.req.before[1].nodes) :
          /\ n.id # last.req.node_id
          /\ n.data.created_at # NoStamp
          /\ n \notin Range(last.req.flow_data[1].nodes)
          /\ n \notin Range(store[last.req.user_id].nodes)

\* C10: a successful add_node stores the node with data.created_at set, at
\* the end of nodes unless an equal element is there, and leaves edges, theme,
\* node_count and edge_count as they were; a successful remove_node leaves
\* theme, node_count and edge_count as they were. After a save followed by an
\* add_node of a new node, load reports a node_count one less than the length
\* of the nodes it returns.
C10_CountsNotUpdated ==
    /\ (last.route = "add_node" /\ last.status = 200) =>
          LET b == last.req.before[1]
              d == store[last.req.ref]
              n == Node(last.req.node[1].id, last.req.now)
              resp == LoadResponse(get_flow_data(store, last.req.ref))
          IN  /\ d.nodes = IF n \in Range(b.nodes) THEN b.nodes ELSE b.nodes \o <<n>>
              /\ d.edges = b.edges
              /\ d.theme = b.theme
              /\ d.node_count = b.node_count
              /\ d.edge_count = b.edge_count
              /\ (last.req.after_save /\ n \notin Range(b.nodes)) =>
                    resp.body.node_count = Len(resp.body.nodes) - 1
    /\ (last.route = "delete_node" /\ last.status = 200) =>
          LET b == last.req.before[1]
              d == store[last.req.user_id]
          IN  /\ d.theme = b.theme
              /\ d.node_count = b.node_count
              /\ d.edge_count = b.edge_count

\* An add_node of a new node right after a save of nodes and edges.
C10_Witness ==
    /\ last.route = "add_node"
    /\ last.status = 200
    /\ last.req.after_save
    /\ Len(last.req.before[1].edges) > 0
    /\ Len(store[last.req.ref].nodes) = Len(last.req.before[1].nodes) + 1
    /\ store[last.req.ref].node_count = Len(store[last.req.ref].nodes) - 1

====
